---- MODULE Spec2Model ----
(***************************************************************************)
(* Model of backend/flask_docker/db.py: the Database class (connection     *)
(* lifecycle, cursor scope, transactional scope, teardown) and the SQL     *)
(* script splitter of Database.execute_many.                               *)
(*                                                                         *)
(* Text is modelled as a sequence of one-character strings, so that the    *)
(* Python string operations used by execute_many (strip, startswith, in,   *)
(* split, replace, +=) are computed character by character.                *)
(***************************************************************************)
EXTENDS Integers, Sequences, FiniteSets, TLC

(***************************************************************************)
(* Bounds of the model.                                                    *)
(***************************************************************************)
\* longest script (number of lines) handed to execute_many in SpecScript
MaxLines == 3
\* largest value of the class attribute Database.max_retries that is explored
MaxRetriesBound == 5
\* number of statements the lifecycle model lets the caller execute
MaxStmts == 3
\* number of items of the dict passed to insert / update / insert_on_dup_update
MaxCols == 3

(***************************************************************************)
(* Python str operations.                                                  *)
(***************************************************************************)
\* the characters str.strip() and str.split() treat as whitespace
Whitespace == {" ", "\n", "\t"}

\* str.lstrip()
RECURSIVE LStrip(_)
LStrip(s) ==
    IF s # <<>> /\ Head(s) \in Whitespace THEN LStrip(Tail(s)) ELSE s

\* str.rstrip()
RECURSIVE RStrip(_)
RStrip(s) ==
    IF s # <<>> /\ s[Len(s)] \in Whitespace
    THEN RStrip(SubSeq(s, 1, Len(s) - 1))
    ELSE s

\* str.strip()
Strip(s) == RStrip(LStrip(s))

\* str.startswith(p)
StartsWith(s, p) == Len(p) <= Len(s) /\ SubSeq(s, 1, Len(p)) = p

\* `sub in s`
Contains(s, sub) ==
    \E k \in 0..(Len(s) - Len(sub)) : SubSeq(s, k + 1, k + Len(sub)) = sub

\* str.split(): the maximal runs of non-whitespace characters, in order
RECURSIVE SplitFrom(_, _, _)
SplitFrom(s, cur, acc) ==
    IF s = <<>>
    THEN IF cur = <<>> THEN acc ELSE Append(acc, cur)
    ELSE IF Head(s) \in Whitespace
         THEN SplitFrom(Tail(s), <<>>, IF cur = <<>> THEN acc ELSE Append(acc, cur))
         ELSE SplitFrom(Tail(s), Append(cur, Head(s)), acc)

Split(s) == SplitFrom(s, <<>>, <<>>)

\* str.replace(old, new) for a non-empty old: leftmost, non-overlapping
RECURSIVE Replace(_, _, _)
Replace(s, old, new) ==
    IF s = <<>> THEN <<>>
    ELSE IF StartsWith(s, old)
         THEN new \o Replace(SubSeq(s, Len(old) + 1, Len(s)), old, new)
         ELSE <<Head(s)>> \o Replace(Tail(s), old, new)

(***************************************************************************)
(* Literals of execute_many.                                               *)
(***************************************************************************)
\* the default delimiter ";" (DELIMITER = ";")
Semicolon == <<";">>
\* the comment marker "--"
CommentMarker == <<"-", "-">>
\* the directive word "DELIMITER"
DelimiterWord == <<"D", "E", "L", "I", "M", "I", "T", "E", "R">>

(***************************************************************************)
(* Script lines the model feeds to execute_many.                           *)
(***************************************************************************)
LineDelimDollar == DelimiterWord \o <<" ", "$", "$">>
LineSelect1 == <<"S", "E", "L", "E", "C", "T", " ", "1", "$", "$">>
LineDelimSemi == DelimiterWord \o <<" ", ";">>
LineSelect2 == <<"S", "E", "L", "E", "C", "T", " ", "2", ";">>
LineComment == <<"-", "-", " ", "c", "\n">>
LineBlank == <<" ", "\n">>
LineBegin == <<"B", "E", "G", "I", "N", "\n">>
LineInner == <<" ", "a", ";", "\n">>
LineBareDirective == DelimiterWord \o <<"\n">>
LineInlineDirective == <<"a", " ">> \o DelimiterWord \o <<" ", "$", "$">>

LinePool ==
    { LineDelimDollar, LineSelect1, LineDelimSemi, LineSelect2, LineComment,
      LineBlank, LineBegin, LineInner, LineBareDirective, LineInlineDirective }

\* every script of at most MaxLines lines over the pool
Scripts == UNION { [1..n -> LinePool] : n \in 0..MaxLines }

\* the script of the specification's delimiter example
DelimiterExample == <<LineDelimDollar, LineSelect1, LineDelimSemi, LineSelect2>>

(***************************************************************************)
(* execute_many, lines 300-320: the splitting loop.                        *)
(* A parse state is [DELIMITER, stmt, stmts, hDelims, error]; hDelims is a *)
(* history field: the delimiter that was active when each statement was    *)
(* appended to stmts.                                                      *)
(***************************************************************************)
ParseInit ==
    [DELIMITER |-> Semicolon, stmt |-> <<>>, stmts |-> <<>>,
     hDelims |-> <<>>, error |-> FALSE]

\* variant of ParseLine without the `stmt = ""` of line 318
ParseLineKeepsBuffer(p, line) ==
    IF Strip(line) = <<>> THEN p
    ELSE IF StartsWith(line, CommentMarker) THEN p
    ELSE IF Contains(line, DelimiterWord)
         THEN IF Len(Split(line)) < 2
              THEN [p EXCEPT !.error = TRUE]
              ELSE [p EXCEPT !.DELIMITER = Split(line)[2]]
    ELSE IF ~Contains(line, p.DELIMITER)
         THEN [p EXCEPT !.stmt = p.stmt \o Replace(line, p.DELIMITER, Semicolon)]
    ELSE IF p.stmt # <<>>
         THEN [p EXCEPT !.stmts = Append(p.stmts, Strip(p.stmt \o line)),
                        !.hDelims = Append(p.hDelims, p.DELIMITER),
                        !.stmt = p.stmt \o line]
         ELSE [p EXCEPT !.stmts = Append(p.stmts, Strip(line)),
                        !.hDelims = Append(p.hDelims, p.DELIMITER)]

\* variant of ParseLine without the `continue` of line 311: the directive line
\* goes on to the delimiter test under the delimiter it has just set
ParseLineDirectiveFallsThrough(p, line) ==
    IF Strip(line) = <<>> THEN p
    ELSE IF StartsWith(line, CommentMarker) THEN p
    ELSE IF Contains(line, DelimiterWord) /\ Len(Split(line)) < 2
         THEN [p EXCEPT !.error = TRUE]
    ELSE LET d == IF Contains(line, DelimiterWord) THEN Split(line)[2]
                  ELSE p.DELIMITER
             q == [p EXCEPT !.DELIMITER = d]
         IN  IF ~Contains(line, d)
             THEN [q EXCEPT !.stmt = p.stmt \o Replace(line, d, Semicolon)]
             ELSE IF p.stmt # <<>>
                  THEN [q EXCEPT !.stmts = Append(p.stmts, Strip(p.stmt \o line)),
                                 !.hDelims = Append(p.hDelims, d),
                                 !.stmt = <<>>]
                  ELSE [q EXCEPT !.stmts = Append(p.stmts, Strip(line)),
                                 !.hDelims = Append(p.hDelims, d)]

\* variant of ParseLine without the `startswith("--")` test of line 307
ParseLineKeepsComments(p, line) ==
    IF Strip(line) = <<>> THEN p
    ELSE IF Contains(line, DelimiterWord)
         THEN IF Len(Split(line)) < 2
              THEN [p EXCEPT !.error = TRUE]
              ELSE [p EXCEPT !.DELIMITER = Split(line)[2]]
    ELSE IF ~Contains(line, p.DELIMITER)
         THEN [p EXCEPT !.stmt = p.stmt \o Replace(line, p.DELIMITER, Semicolon)]
    ELSE IF p.stmt # <<>>
         THEN [p EXCEPT !.stmts = Append(p.stmts, Strip(p.stmt \o line)),
                        !.hDelims = Append(p.hDelims, p.DELIMITER),
                        !.stmt = <<>>]
         ELSE [p EXCEPT !.stmts = Append(p.stmts, Strip(line)),
                        !.hDelims = Append(p.hDelims, p.DELIMITER)]

\* one iteration of `for line in lines` (lines 305-320)
ParseLine(p, line) ==
    IF Strip(line) = <<>> THEN p
    ELSE IF StartsWith(line, CommentMarker) THEN p
    ELSE IF Contains(line, DelimiterWord)
         THEN IF Len(Split(line)) < 2
              THEN [p EXCEPT !.error = TRUE]
              ELSE [p EXCEPT !.DELIMITER = Split(line)[2]]
    ELSE IF ~Contains(line, p.DELIMITER)
         THEN [p EXCEPT !.stmt = p.stmt \o Replace(line, p.DELIMITER, Semicolon)]
    ELSE IF p.stmt # <<>>
         THEN [p EXCEPT !.stmts = Append(p.stmts, Strip(p.stmt \o line)),
                        !.hDelims = Append(p.hDelims, p.DELIMITER),
                        !.stmt = <<>>]
         ELSE [p EXCEPT !.stmts = Append(p.stmts, Strip(line)),
                        !.hDelims = Append(p.hDelims, p.DELIMITER)]

\* the whole loop over a script; stops at the first line that raises
RECURSIVE ParseFrom(_, _)
ParseFrom(p, ls) ==
    IF ls = <<>> \/ p.error THEN p ELSE ParseFrom(ParseLine(p, Head(ls)), Tail(ls))

ParseLines(ls) == ParseFrom(ParseInit, ls)

(***************************************************************************)
(* The statement builders of insert, update and insert_on_dup_update.      *)
(* A dict is the sequence of its items [key, val] in insertion order; a    *)
(* value is [type, text], a datetime being written by the text strftime    *)
(* gives it.  A built statement is kept by its parts: the column list, the *)
(* number of %s placeholders of VALUES, the SET or ON DUPLICATE KEY UPDATE *)
(* list, the WHERE columns, and the arguments bound.                       *)
(***************************************************************************)
\* the columns the model puts in a row
ColumnPool == {"id", "name", "created_at", "email"}

\* the value the model gives each column
ValueOf(key) ==
    CASE key = "id" -> [type |-> "int", text |-> "5"]
      [] key = "created_at" -> [type |-> "datetime", text |-> "2024-01-02 03:04:05.000006"]
      [] key = "name" -> [type |-> "str", text |-> "x"]
      [] OTHER -> [type |-> "str", text |-> "e"]

\* every dict of at most MaxCols of these columns, in every insertion order
Rows ==
    UNION { { [k \in 1..n |-> [key |-> ks[k], val |-> ValueOf(ks[k])]] :
                ks \in { f \in [1..n -> ColumnPool] :
                           \A i, j \in 1..n : f[i] = f[j] => i = j } } :
            n \in 0..MaxCols }

\* obj.keys()
Keys(o) == [k \in DOMAIN o |-> o[k].key]

\* obj[key]
Get(o, key) == o[CHOOSE k \in DOMAIN o : o[k].key = key].val

\* [k for k in ks if k != x]
RECURSIVE KeysExcept(_, _)
KeysExcept(ks, x) ==
    IF ks = <<>> THEN <<>>
    ELSE IF Head(ks) # x THEN <<Head(ks)>> \o KeysExcept(Tail(ks), x)
    ELSE KeysExcept(Tail(ks), x)

\* fmt_datetime (lines 140-152): the str strftime gives
FmtDatetime(v) == [type |-> "str", text |-> v.text]

\* `if isinstance(arg, datetime): args[i] = self.fmt_datetime(arg)` (lines 184-186)
FmtArgs(args) ==
    [i \in DOMAIN args |->
        IF args[i].type = "datetime" THEN FmtDatetime(args[i]) ELSE args[i]]

\* `for arg in args: if isinstance(arg, datetime): arg = ...` (lines 227-229,
\* 242-244) rebinds the loop variable only: args is left as it was
RebindArgs(args) == args

\* no statement built
NoStatement ==
    [op |-> "none", cols |-> <<>>, vals |-> 0, updates |-> <<>>,
     where |-> <<>>, args |-> <<>>]

\* variant of InsertKeys: the `if k != "id"` filter is missing
InsertKeysAll(o) == Keys(o)

\* insert, line 179
InsertKeys(o) == KeysExcept(Keys(o), "id")

\* insert, lines 179-186
InsertStatement(o) ==
    LET keys == InsertKeys(o) IN
    [NoStatement EXCEPT !.op = "insert", !.cols = keys, !.vals = Len(keys),
                        !.args = FmtArgs([k \in DOMAIN keys |-> Get(o, keys[k])])]

\* the (column, value) pairs of the where forms the model passes to update
WherePairs(w) ==
    CASE w = "where" -> << <<"id", ValueOf("id")>> >>
      [] w = "where_list" -> << <<"id", ValueOf("id")>>, <<"name", ValueOf("name")>> >>
      [] OTHER -> <<>>

\* update, line 214
UpdateKeys(o) == KeysExcept(Keys(o), "id")

\* update, lines 214-229, for a usable where form
UpdateStatement(o, w) ==
    LET keys == UpdateKeys(o)
        wh == WherePairs(w)
    IN  [NoStatement EXCEPT
            !.op = "update", !.updates = keys,
            !.where = [k \in DOMAIN wh |-> wh[k][1]],
            !.args = RebindArgs([k \in DOMAIN keys |-> Get(o, keys[k])]
                                    \o [k \in DOMAIN wh |-> wh[k][2]])]

\* insert_on_dup_update, line 235
UpsertKeys(o) == KeysExcept(Keys(o), "id")

\* variant of UpsertUpdateKeys: the `if k != "created_at"` filter is missing
UpsertUpdateKeysAll(keys) == keys

\* insert_on_dup_update, line 236
UpsertUpdateKeys(keys) == KeysExcept(keys, "created_at")

\* insert_on_dup_update, lines 235-244
UpsertStatement(o) ==
    LET keys == UpsertKeys(o) IN
    [NoStatement EXCEPT !.op = "upsert", !.cols = keys, !.vals = Len(keys),
                        !.updates = UpsertUpdateKeys(keys),
                        !.args = RebindArgs([k \in DOMAIN keys |-> Get(o, keys[k])])]

(***************************************************************************)
(* State.                                                                  *)
(***************************************************************************)
VARIABLES
    max_retries, \* Database.max_retries (class attribute)
    autocommit,  \* self.autocommit, fixed at construction
    phase,       \* "connecting", "live", "failed" (constructor raised), "deleted"
    retry,       \* loop variable of _get_connection
    attempts,    \* history: number of pymysql.connect calls made
    sleeps,      \* history: the arguments of time.sleep, in order
    errRetries,  \* the retry count carried by the RuntimeError, -1 if none
    open,        \* self.conn.open: the client holds a socket
    link,        \* the server session behind the socket is alive
    status,      \* per executed statement: "none", "pending", "persisted",
                 \* "rolledback" or "lost" (its session ended uncommitted)
    nstmt,       \* number of statements executed successfully so far
    inScope,     \* between __enter__ and __exit__
    scopeStmts,  \* history: statements executed inside the current/last scope
    scopeMany,   \* history: execute_many was called inside that scope
    last,        \* history: what the last operation did
    anyRaised,   \* history: some operation so far has raised
    lines,       \* the argument of execute_many (SpecScript)
    lineNo,      \* number of lines the for loop has consumed
    parse,       \* DELIMITER, stmt, stmts of the running call
    spc,         \* position of the call: "call", "parse", "exec", "done" or "raised"
    obj,         \* the dict argument of insert / update / insert_on_dup_update:
                 \* its items in insertion order (SpecBuild)
    built        \* history: the statement and arguments the call has built

lvars ==
    <<max_retries, autocommit, phase, retry, attempts, sleeps, errRetries, open,
      link, status, nstmt, inScope, scopeStmts, scopeMany, last, anyRaised>>

svars == <<lines, lineNo, parse, spc>>

bvars == <<obj, built>>

vars == <<lvars, svars, bvars>>

StmtIds == 1..MaxStmts

\* the record kept of an operation: its name, whether it raised and what
\* (error), the calls it made on the connection and the cursor in order, those
\* made by the cursor scope's finally clause, the state of the cursor it was
\* handed, the statements it passed to cursor.execute, which of these raised
\* (failedAt, 0 if none), and for update the where form it was given
NoOp ==
    [op |-> "none", exc |-> FALSE, raised |-> FALSE, error |-> "none",
     calls |-> <<>>, exitCalls |-> <<>>, cursor |-> "none", executed |-> <<>>,
     failedAt |-> 0, where |-> "n/a", wasOpen |-> FALSE]

(***************************************************************************)
(* The driver (pymysql connection and the server session behind it), as    *)
(* db.py uses it.  A driver state is [open, link, status, nstmt].          *)
(***************************************************************************)
Drv == [open |-> open, link |-> link, status |-> status, nstmt |-> nstmt]

\* the server session ends: its uncommitted statements are discarded
Drop(d) ==
    [d EXCEPT !.link = FALSE,
              !.status = [s \in StmtIds |->
                            IF d.status[s] = "pending" THEN "lost" ELSE d.status[s]]]

\* the client gives up its socket (close, or an error on the wire)
ForceClose(d) == [Drop(d) EXCEPT !.open = FALSE]

\* self.conn.commit()
DrvCommit(d) ==
    IF d.open /\ d.link
    THEN [ok |-> TRUE,
          d |-> [d EXCEPT !.status = [s \in StmtIds |->
                    IF d.status[s] = "pending" THEN "persisted" ELSE d.status[s]]]]
    ELSE [ok |-> FALSE, d |-> ForceClose(d)]

\* self.conn.rollback()
DrvRollback(d) ==
    IF d.open /\ d.link
    THEN [ok |-> TRUE,
          d |-> [d EXCEPT !.status = [s \in StmtIds |->
                    IF d.status[s] = "pending" THEN "rolledback" ELSE d.status[s]]]]
    ELSE [ok |-> FALSE, d |-> ForceClose(d)]

\* self.conn.ping(reconnect=True): a dead or closed connection is replaced by a
\* new session when the server can be reached
DrvPing(d, reconnOk) ==
    IF d.open /\ d.link THEN [ok |-> TRUE, d |-> d]
    ELSE IF reconnOk
         THEN [ok |-> TRUE, d |-> [ForceClose(d) EXCEPT !.open = TRUE, !.link = TRUE]]
         ELSE [ok |-> FALSE, d |-> ForceClose(d)]

\* what can happen to one cursor.execute: it succeeds, the server rejects the
\* statement, the session is lost before it, or the session is lost after it
Outcomes == {"ok", "stmtfail", "drop", "dropAfter"}

\* cursor.execute(sql, args); writes = the statement changes data
DrvExecute(d, ac, outcome, writes) ==
    LET done ==
            IF writes
            THEN [d EXCEPT !.nstmt = d.nstmt + 1,
                           !.status[d.nstmt + 1] =
                               IF ac THEN "persisted" ELSE "pending"]
            ELSE d
    IN  CASE ~(d.open /\ d.link) -> [ok |-> FALSE, d |-> ForceClose(d)]
          [] outcome = "ok" -> [ok |-> TRUE, d |-> done]
          [] outcome = "dropAfter" -> [ok |-> TRUE, d |-> Drop(done)]
          [] outcome = "stmtfail" -> [ok |-> FALSE, d |-> d]
          [] OTHER -> [ok |-> FALSE, d |-> ForceClose(d)]

\* self.conn.close()
DrvClose(d) == ForceClose(d)

(***************************************************************************)
(* Database.cursor, lines 108-123.  A run is the record of an operation    *)
(* together with the driver state it has reached.                          *)
(***************************************************************************)
\* variant of CursorExitCommits: the finally clause commits unconditionally
CursorExitCommitsAlways(ac) == TRUE

\* `if self.autocommit:` in the finally clause (line 121)
CursorExitCommits(ac) == ac

\* lines 116-117: ping with reconnect, then conn.cursor()
CursorEnter(op, d, reconnOk) ==
    LET p == DrvPing(d, reconnOk) IN
    [NoOp EXCEPT !.op = op, !.raised = ~p.ok, !.calls = <<"ping">>,
                 !.error = IF p.ok THEN "none" ELSE "DriverError",
                 !.cursor = IF p.ok THEN "open" ELSE "none"]
        @@ [d |-> p.d]

\* lines 120-123: the finally clause, run on every exit of the with body
CursorExit(r, ac) ==
    IF CursorExitCommits(ac)
    THEN LET c == DrvCommit(r.d) IN
         [r EXCEPT !.d = c.d,
                   !.calls = Append(@, "commit"),
                   !.exitCalls = <<"commit">>,
                   !.raised = r.raised \/ ~c.ok,
                   !.error = IF c.ok THEN r.error ELSE "DriverError",
                   !.cursor = IF c.ok THEN "closed" ELSE "open"]
    ELSE [r EXCEPT !.cursor = "closed"]

\* the text of a statement built by the caller or by a statement builder
SqlArg == <<"S", "Q", "L">>

\* cursor.execute(sql, ...) inside the with body
ExecOne(r, ac, sql, outcome, writes) ==
    LET e == DrvExecute(r.d, ac, outcome, writes) IN
    [r EXCEPT !.d = e.d, !.raised = ~e.ok,
              !.error = IF e.ok THEN "none" ELSE "DriverError",
              !.calls = Append(@, "execute"),
              !.executed = Append(@, sql),
              !.failedAt = IF e.ok THEN @ ELSE Len(r.executed) + 1]

\* with self.cursor() as cursor: cursor.execute(sql, args)
RunStatement(op, d, ac, reconnOk, outcome, writes) ==
    LET r == CursorEnter(op, d, reconnOk) IN
    IF r.raised THEN r ELSE CursorExit(ExecOne(r, ac, SqlArg, outcome, writes), ac)

(***************************************************************************)
(* Database.execute_many, lines 300-323, as one call.                      *)
(***************************************************************************)
\* `for stmt in stmts: cursor.execute(stmt)` (lines 321-322): the first nOk
\* statements succeed, the next one (if any) meets `outcome`
RECURSIVE ExecStmts(_, _, _, _, _)
ExecStmts(r, ac, stmts, nOk, outcome) ==
    IF stmts = <<>> \/ r.raised THEN r
    ELSE ExecStmts(ExecOne(r, ac, Head(stmts), IF nOk > 0 THEN "ok" ELSE outcome, TRUE),
                   ac, Tail(stmts), nOk - 1, outcome)

\* variant of BodyCommit: the with body ends without committing
BodyCommitSkipped(r) == r

\* self.conn.commit() at the end of the with body (line 323)
BodyCommit(r) ==
    LET c == DrvCommit(r.d) IN
    [r EXCEPT !.d = c.d, !.calls = Append(@, "commit"), !.raised = ~c.ok,
              !.error = IF c.ok THEN "none" ELSE "DriverError"]

\* the scripts the lifecycle model passes to execute_many
LifeScripts ==
    { DelimiterExample, <<LineBegin, LineSelect2>>, <<LineComment, LineBlank>>,
      <<LineSelect2, LineBareDirective>> }

\* the splitting loop applied to each of them
LifeParsed == [script \in LifeScripts |-> ParseLines(script)]

\* line.split()[1] raises IndexError inside the with body (line 310)
ParseError(r) == [r EXCEPT !.raised = TRUE, !.error = "IndexError"]

RunMany(d, ac, script, reconnOk, nOk, outcome) ==
    LET r == CursorEnter("execute_many", d, reconnOk)
        p == LifeParsed[script]
    IN  IF r.raised THEN r
        ELSE IF p.error THEN CursorExit(ParseError(r), ac)
        ELSE LET x == ExecStmts(r, ac, p.stmts, nOk, outcome) IN
             CursorExit(IF x.raised THEN x ELSE BodyCommit(x), ac)

(***************************************************************************)
(* Database._get_connection, lines 81-94.                                  *)
(***************************************************************************)
\* `for retry in range(Database.max_retries)`: the loop goes on
RetryInRange(r, mr) == r < mr

\* variant of SleepsBeforeRetry: the sleep is not skipped after the last attempt
SleepsAfterEveryFailure(r, mr) == r < mr

\* `if retry < Database.max_retries - 1` (line 90)
SleepsBeforeRetry(r, mr) == r < mr - 1

\* 2**retry
RECURSIVE Pow2(_)
Pow2(k) == IF k = 0 THEN 1 ELSE 2 * Pow2(k - 1)

\* one iteration: pymysql.connect succeeds or raises
ConnectAttempt ==
    /\ phase = "connecting"
    /\ RetryInRange(retry, max_retries)
    /\ attempts' = attempts + 1
    /\ \E ok \in BOOLEAN :
        IF ok
        THEN /\ phase' = "live"
             /\ open' = TRUE
             /\ link' = TRUE
             /\ UNCHANGED <<retry, sleeps>>
        ELSE /\ retry' = retry + 1
             /\ sleeps' = IF SleepsBeforeRetry(retry, max_retries)
                          THEN Append(sleeps, Pow2(retry))
                          ELSE sleeps
             /\ UNCHANGED <<phase, open, link>>
    /\ last' = [NoOp EXCEPT !.op = "connect"]
    /\ UNCHANGED anyRaised
    /\ UNCHANGED <<max_retries, autocommit, errRetries, status, nstmt, inScope,
                   scopeStmts, scopeMany, svars, bvars>>

\* the loop is exhausted: raise RuntimeError (lines 92-94); self.conn is never set
ConnectGiveUp ==
    /\ phase = "connecting"
    /\ ~RetryInRange(retry, max_retries)
    /\ phase' = "failed"
    /\ errRetries' = max_retries
    /\ last' = [NoOp EXCEPT !.op = "connect", !.raised = TRUE,
                            !.error = "RuntimeError"]
    /\ anyRaised' = TRUE
    /\ UNCHANGED <<max_retries, autocommit, retry, attempts, sleeps, open, link,
                   status, nstmt, inScope, scopeStmts, scopeMany, svars, bvars>>

(***************************************************************************)
(* Operations on a constructed Database.                                   *)
(***************************************************************************)
\* the state after an operation whose run is r and which has built b
ApplyBuilt(r, b) ==
    /\ open' = r.d.open
    /\ link' = r.d.link
    /\ status' = r.d.status
    /\ nstmt' = r.d.nstmt
    /\ last' = [f \in DOMAIN NoOp |-> r[f]]
    /\ anyRaised' = (anyRaised \/ r.raised)
    /\ scopeStmts' = IF inScope
                     THEN scopeStmts \cup ((nstmt + 1)..r.d.nstmt)
                     ELSE scopeStmts
    /\ built' = b
    /\ UNCHANGED <<max_retries, autocommit, phase, retry, attempts, sleeps,
                   errRetries, inScope, svars, obj>>

\* the state after an operation whose run is r
Apply(r) == ApplyBuilt(r, built)

\* whether the reconnect inside ping succeeds matters only when ping has to
\* reconnect
ReconnChoices == IF open /\ link THEN {TRUE} ELSE BOOLEAN

\* `if not isinstance(lastrowid, int): raise Exception(...)` (lines 191-192,
\* 252-253), after the cursor scope has been left
NoRowId(r) == [r EXCEPT !.raised = TRUE, !.error = "Exception"]

\* insert, lines 164-194; idOk = cursor.lastrowid is an int
Insert ==
    /\ phase = "live"
    /\ nstmt < MaxStmts
    /\ \E reconnOk \in ReconnChoices, outcome \in Outcomes, idOk \in BOOLEAN :
        LET r == RunStatement("insert", Drv, autocommit, reconnOk, outcome, TRUE) IN
        Apply(IF r.raised \/ idOk THEN r ELSE NoRowId(r))
    /\ UNCHANGED scopeMany

\* the where forms a caller can pass to update
WhereForms == {"where", "where_list", "empty_list", "none"}

\* variant of WhereUsable: only the absence of both forms is rejected
WhereUsableUnlessNone(w) == w # "none"

\* lines 217-226: `where is not None`, or a where_list that zip(*where_list)
\* can unpack into columns and values; an empty where_list makes the unpacking
\* raise ValueError, no where form at all reaches `raise ValueError` (line 226)
WhereUsable(w) == w \in {"where", "where_list"}

\* update, lines 196-232: ValueError before any cursor when no usable where form
\* is given (line 226; zip(*[]) at line 221 for an empty where_list)
Update ==
    /\ phase = "live"
    /\ nstmt < MaxStmts
    /\ \E w \in WhereForms :
        IF WhereUsable(w)
        THEN \E reconnOk \in ReconnChoices, outcome \in Outcomes :
                Apply([RunStatement("update", Drv, autocommit, reconnOk, outcome, TRUE)
                          EXCEPT !.where = w])
        ELSE Apply([NoOp EXCEPT !.op = "update", !.raised = TRUE,
                                !.error = "ValueError", !.where = w]
                       @@ [d |-> Drv])
    /\ UNCHANGED scopeMany

\* insert_on_dup_update, lines 234-255
Upsert ==
    /\ phase = "live"
    /\ nstmt < MaxStmts
    /\ \E reconnOk \in ReconnChoices, outcome \in Outcomes, idOk \in BOOLEAN :
        LET r == RunStatement("upsert", Drv, autocommit, reconnOk, outcome, TRUE) IN
        Apply(IF r.raised \/ idOk THEN r ELSE NoRowId(r))
    /\ UNCHANGED scopeMany

\* fetch, lines 257-276
Fetch ==
    /\ phase = "live"
    /\ \E reconnOk \in ReconnChoices, outcome \in Outcomes :
        Apply(RunStatement("fetch", Drv, autocommit, reconnOk, outcome, FALSE))
    /\ UNCHANGED scopeMany

\* execute, lines 278-290
Execute ==
    /\ phase = "live"
    /\ nstmt < MaxStmts
    /\ \E reconnOk \in ReconnChoices, outcome \in Outcomes :
        Apply(RunStatement("execute", Drv, autocommit, reconnOk, outcome, TRUE))
    /\ UNCHANGED scopeMany

\* execute_many, lines 292-323
ExecuteMany ==
    /\ phase = "live"
    /\ \E script \in LifeScripts :
        LET n == Len(LifeParsed[script].stmts) IN
        /\ nstmt + n <= MaxStmts
        /\ \E reconnOk \in ReconnChoices, nOk \in 0..n, outcome \in Outcomes \ {"ok"} :
            Apply(RunMany(Drv, autocommit, script, reconnOk, nOk, outcome))
    /\ scopeMany' = (inScope \/ scopeMany)

\* __enter__, lines 96-97
Enter ==
    /\ phase = "live"
    /\ ~inScope
    /\ inScope' = TRUE
    /\ scopeStmts' = {}
    /\ scopeMany' = FALSE
    /\ last' = [NoOp EXCEPT !.op = "enter"]
    /\ UNCHANGED anyRaised
    /\ UNCHANGED <<max_retries, autocommit, phase, retry, attempts, sleeps,
                   errRetries, open, link, status, nstmt, svars, bvars>>

\* variants of ExitCall: the two branches exchanged, the test dropped in
\* favour of commit, the test dropped in favour of rollback
ExitCallSwapped(exc) == IF exc THEN "commit" ELSE "rollback"

ExitCallAlwaysCommit(exc) == "commit"

ExitCallAlwaysRollback(exc) == "rollback"

\* the connection call __exit__ makes (lines 103-106)
ExitCall(exc) == IF exc THEN "rollback" ELSE "commit"

\* __exit__, lines 99-106; exc = an exception is leaving the with block
Exit ==
    /\ phase = "live"
    /\ inScope
    /\ \E exc \in BOOLEAN :
        LET call == ExitCall(exc)
            c == IF call = "rollback" THEN DrvRollback(Drv) ELSE DrvCommit(Drv)
        IN  /\ open' = c.d.open
            /\ link' = c.d.link
            /\ status' = c.d.status
            /\ last' = [NoOp EXCEPT !.op = "exit", !.exc = exc,
                                    !.raised = ~c.ok, !.calls = <<call>>,
                                    !.error = IF c.ok THEN "none" ELSE "DriverError"]
            /\ anyRaised' = (anyRaised \/ ~c.ok)
    /\ inScope' = FALSE
    /\ UNCHANGED <<max_retries, autocommit, phase, retry, attempts, sleeps,
                   errRetries, nstmt, scopeStmts, scopeMany, svars, bvars>>

\* __del__, lines 52-56.  After a failed construction self.conn does not exist
\* and reading it raises AttributeError; a failing commit raises before close.
Teardown ==
    /\ phase \in {"live", "failed"}
    /\ ~inScope
    /\ phase' = "deleted"
    /\ IF phase = "failed"
       THEN /\ last' = [NoOp EXCEPT !.op = "del", !.raised = TRUE,
                                    !.error = "AttributeError"]
            /\ UNCHANGED <<open, link, status>>
       ELSE IF open
       THEN LET c == DrvCommit(Drv) IN
            IF c.ok
            THEN /\ open' = DrvClose(c.d).open
                 /\ link' = DrvClose(c.d).link
                 /\ status' = DrvClose(c.d).status
                 /\ last' = [NoOp EXCEPT !.op = "del", !.wasOpen = open,
                                         !.calls = <<"commit", "close">>]
            ELSE /\ open' = c.d.open
                 /\ link' = c.d.link
                 /\ status' = c.d.status
                 /\ last' = [NoOp EXCEPT !.op = "del", !.raised = TRUE,
                                         !.error = "DriverError",
                                         !.wasOpen = open, !.calls = <<"commit">>]
       ELSE /\ last' = [NoOp EXCEPT !.op = "del"]
            /\ UNCHANGED <<open, link, status>>
    /\ anyRaised' = (anyRaised \/ last'.raised)
    /\ UNCHANGED <<max_retries, autocommit, retry, attempts, sleeps, errRetries,
                   nstmt, inScope, scopeStmts, scopeMany, svars, bvars>>

\* the network or the server ends the session; the client has not noticed yet
LinkDrop ==
    /\ phase = "live"
    /\ link
    /\ link' = Drop(Drv).link
    /\ status' = Drop(Drv).status
    /\ UNCHANGED <<max_retries, autocommit, phase, retry, attempts, sleeps,
                   errRetries, open, nstmt, inScope, scopeStmts, scopeMany, last,
                   anyRaised, svars, bvars>>

\* Database.max_retries = 1 (line 32)
DefaultMaxRetries == 1

\* the state in which __init__ starts, but for max_retries
Fresh ==
    /\ autocommit \in BOOLEAN
    /\ phase = "connecting"
    /\ retry = 0
    /\ attempts = 0
    /\ sleeps = <<>>
    /\ errRetries = -1
    /\ open = FALSE
    /\ link = FALSE
    /\ status = [s \in StmtIds |-> "none"]
    /\ nstmt = 0
    /\ inScope = FALSE
    /\ scopeStmts = {}
    /\ scopeMany = FALSE
    /\ last = NoOp
    /\ anyRaised = FALSE
    /\ lines = <<>>
    /\ lineNo = 0
    /\ parse = ParseInit
    /\ spc = "idle"
    /\ obj = <<>>
    /\ built = NoStatement

Init == max_retries = DefaultMaxRetries /\ Fresh

Next ==
    \/ ConnectAttempt
    \/ ConnectGiveUp
    \/ Insert
    \/ Update
    \/ Upsert
    \/ Fetch
    \/ Execute
    \/ ExecuteMany
    \/ Enter
    \/ Exit
    \/ Teardown
    \/ LinkDrop

Spec == Init /\ [][Next]_vars

(***************************************************************************)
(* Construction and teardown alone, for every value of the class attribute *)
(* max_retries up to MaxRetriesBound.                                      *)
(***************************************************************************)
InitConnect == max_retries \in 1..MaxRetriesBound /\ Fresh

NextConnect ==
    \/ ConnectAttempt
    \/ ConnectGiveUp
    \/ Teardown

SpecConnect == InitConnect /\ [][NextConnect]_vars

(***************************************************************************)
(* One execute_many call followed step by step (SpecScript): the same      *)
(* lines 300-323, with the position of the call in spc and the run so far  *)
(* in last.                                                                *)
(***************************************************************************)
\* the caller's state when execute_many is called: a constructed Database
\* whose session may have been lost since the last operation
ScriptInit ==
    /\ max_retries = DefaultMaxRetries
    /\ autocommit \in BOOLEAN
    /\ phase = "live"
    /\ retry = 0
    /\ attempts = 1
    /\ sleeps = <<>>
    /\ errRetries = -1
    /\ open = TRUE
    /\ link \in BOOLEAN
    /\ status = [s \in StmtIds |-> "none"]
    /\ nstmt = 0
    /\ inScope = FALSE
    /\ scopeStmts = {}
    /\ scopeMany = FALSE
    /\ last = NoOp
    /\ anyRaised = FALSE
    /\ lines \in Scripts \cup {DelimiterExample}
    /\ Len(ParseLines(lines).stmts) <= MaxStmts
    /\ lineNo = 0
    /\ parse = ParseInit
    /\ spc = "call"
    /\ obj = <<>>
    /\ built = NoStatement

\* the run so far
Run == last @@ [d |-> Drv]

\* the state after a step that takes the run to r and the call to position pos
ScriptApply(r, pos) ==
    /\ open' = r.d.open
    /\ link' = r.d.link
    /\ status' = r.d.status
    /\ nstmt' = r.d.nstmt
    /\ last' = [f \in DOMAIN NoOp |-> r[f]]
    /\ anyRaised' = (anyRaised \/ r.raised)
    /\ spc' = pos
    /\ UNCHANGED <<max_retries, autocommit, phase, retry, attempts, sleeps,
                   errRetries, inScope, scopeStmts, scopeMany, lines, bvars>>

\* `with self.cursor() as cursor:` (line 303)
ScriptBegin ==
    /\ spc = "call"
    /\ \E reconnOk \in ReconnChoices :
        LET r == CursorEnter("execute_many", Drv, reconnOk) IN
        ScriptApply(r, IF r.raised THEN "raised" ELSE "parse")
    /\ UNCHANGED <<lineNo, parse>>

\* variant of ScriptParseStep: a statement is executed as soon as the loop
\* over the lines has finalized it
ScriptParseStepEager ==
    /\ spc = "parse"
    /\ lineNo < Len(lines)
    /\ LET q == ParseLine(parse, lines[lineNo + 1])
           x == IF Len(q.stmts) > Len(parse.stmts)
                THEN ExecOne(Run, autocommit, q.stmts[Len(q.stmts)], "ok", TRUE)
                ELSE Run
       IN
        /\ parse' = q
        /\ lineNo' = lineNo + 1
        /\ IF q.error
           THEN ScriptApply(CursorExit(ParseError(x), autocommit), "raised")
           ELSE ScriptApply(x, "parse")

\* one iteration of the for loop over lines (lines 304-320)
ScriptParseStep ==
    /\ spc = "parse"
    /\ lineNo < Len(lines)
    /\ LET q == ParseLine(parse, lines[lineNo + 1]) IN
        /\ parse' = q
        /\ lineNo' = lineNo + 1
        /\ IF q.error
           THEN ScriptApply(CursorExit(ParseError(Run), autocommit), "raised")
           ELSE ScriptApply(Run, "parse")

\* variant of ScriptParseEnd: what is left in the buffer when the lines are
\* exhausted is appended to stmts as a last statement
ScriptParseEndFlushes ==
    /\ spc = "parse"
    /\ lineNo = Len(lines)
    /\ ScriptApply(Run, "exec")
    /\ parse' = IF parse.stmt = <<>> THEN parse
                ELSE [parse EXCEPT !.stmts = Append(@, Strip(parse.stmt)),
                                   !.hDelims = Append(@, parse.DELIMITER),
                                   !.stmt = <<>>]
    /\ UNCHANGED lineNo

\* the for loop is exhausted: go on to `for stmt in stmts`
ScriptParseEnd ==
    /\ spc = "parse"
    /\ lineNo = Len(lines)
    /\ ScriptApply(Run, "exec")
    /\ UNCHANGED <<lineNo, parse>>

\* variant of ScriptExecStep: a failing cursor.execute is caught and the loop
\* goes on to the next statement
ScriptExecStepSwallows ==
    /\ spc = "exec"
    /\ Len(last.executed) < Len(parse.stmts)
    /\ \E outcome \in Outcomes :
        LET x == ExecOne(Run, autocommit, parse.stmts[Len(last.executed) + 1],
                         outcome, TRUE)
        IN  ScriptApply([x EXCEPT !.raised = FALSE], "exec")
    /\ UNCHANGED <<lineNo, parse>>

\* cursor.execute(stmt) for the next statement (line 322)
ScriptExecStep ==
    /\ spc = "exec"
    /\ Len(last.executed) < Len(parse.stmts)
    /\ \E outcome \in Outcomes :
        LET x == ExecOne(Run, autocommit, parse.stmts[Len(last.executed) + 1],
                         outcome, TRUE)
        IN  IF x.raised
            THEN ScriptApply(CursorExit(x, autocommit), "raised")
            ELSE ScriptApply(x, "exec")
    /\ UNCHANGED <<lineNo, parse>>

\* every statement is executed: self.conn.commit() (line 323), then the cursor
\* scope is left
ScriptCommit ==
    /\ spc = "exec"
    /\ Len(last.executed) = Len(parse.stmts)
    /\ LET r == CursorExit(BodyCommit(Run), autocommit) IN
        ScriptApply(r, IF r.raised THEN "raised" ELSE "done")
    /\ UNCHANGED <<lineNo, parse>>

ScriptNext ==
    \/ ScriptBegin
    \/ ScriptParseStep
    \/ ScriptParseEnd
    \/ ScriptExecStep
    \/ ScriptCommit

SpecScript == ScriptInit /\ [][ScriptNext]_vars

(***************************************************************************)
(* One call of insert, update or insert_on_dup_update on a constructed     *)
(* Database, with the statement it builds (SpecBuild).                     *)
(***************************************************************************)
\* the caller's state when the builder is called, and its dict argument
BuildInit ==
    /\ max_retries = DefaultMaxRetries
    /\ autocommit \in BOOLEAN
    /\ phase = "live"
    /\ retry = 0
    /\ attempts = 1
    /\ sleeps = <<>>
    /\ errRetries = -1
    /\ open = TRUE
    /\ link \in BOOLEAN
    /\ status = [s \in StmtIds |-> "none"]
    /\ nstmt = 0
    /\ inScope = FALSE
    /\ scopeStmts = {}
    /\ scopeMany = FALSE
    /\ last = NoOp
    /\ anyRaised = FALSE
    /\ lines = <<>>
    /\ lineNo = 0
    /\ parse = ParseInit
    /\ spc = "idle"
    /\ obj \in Rows
    /\ built = NoStatement

\* insert(table, obj), lines 179-194
InsertCall ==
    /\ last = NoOp
    /\ \E reconnOk \in ReconnChoices, outcome \in Outcomes, idOk \in BOOLEAN :
        LET r == RunStatement("insert", Drv, autocommit, reconnOk, outcome, TRUE) IN
        ApplyBuilt(IF r.raised \/ idOk THEN r ELSE NoRowId(r), InsertStatement(obj))
    /\ UNCHANGED scopeMany

\* update(table, obj, where, where_list), lines 214-232
UpdateCall ==
    /\ last = NoOp
    /\ \E w \in WhereForms :
        IF WhereUsable(w)
        THEN \E reconnOk \in ReconnChoices, outcome \in Outcomes :
                ApplyBuilt([RunStatement("update", Drv, autocommit, reconnOk,
                                         outcome, TRUE) EXCEPT !.where = w],
                           UpdateStatement(obj, w))
        ELSE Apply([NoOp EXCEPT !.op = "update", !.raised = TRUE,
                                !.error = "ValueError", !.where = w]
                       @@ [d |-> Drv])
    /\ UNCHANGED scopeMany

\* insert_on_dup_update(table, obj), lines 235-255
UpsertCall ==
    /\ last = NoOp
    /\ \E reconnOk \in ReconnChoices, outcome \in Outcomes, idOk \in BOOLEAN :
        LET r == RunStatement("upsert", Drv, autocommit, reconnOk, outcome, TRUE) IN
        ApplyBuilt(IF r.raised \/ idOk THEN r ELSE NoRowId(r), UpsertStatement(obj))
    /\ UNCHANGED scopeMany

BuildNext ==
    \/ InsertCall
    \/ UpdateCall
    \/ UpsertCall

SpecBuild == BuildInit /\ [][BuildNext]_vars

(***************************************************************************)
(* Properties.                                                             *)
(***************************************************************************)
Min(a, b) == IF a < b THEN a ELSE b

\* s ends with p
EndsWith(s, p) == Len(p) <= Len(s) /\ SubSeq(s, Len(s) - Len(p) + 1, Len(s)) = p

\* C1: with autocommit off, a clean exit of the transactional scope issues
\* exactly one commit and no rollback, and an exit by exception issues exactly
\* one rollback and no commit.
C1_ScopeExitCalls ==
    (~autocommit /\ last.op = "exit") =>
        /\ ~last.exc => last.calls = <<"commit">>
        /\ last.exc => last.calls = <<"rollback">>

C1_Witness ==
    /\ ~autocommit
    /\ last.op = "exit"
    /\ last.exc
    /\ last.calls = <<"rollback">>
    /\ \E s \in StmtIds : status[s] = "rolledback"

\* C2 as stated: with autocommit off, when the transactional scope is left by
\* an exception, no statement executed inside the scope is persisted.
C2_ScopeAtomicOnFailure ==
    (~autocommit /\ last.op = "exit" /\ last.exc) =>
        \A s \in scopeStmts : status[s] # "persisted"

\* C2 amended: the same, for scopes in which execute_many was not called.
C2_ScopeAtomicWithoutExecuteMany ==
    (~autocommit /\ last.op = "exit" /\ last.exc /\ ~scopeMany) =>
        \A s \in scopeStmts : status[s] # "persisted"

C2_Witness ==
    /\ ~autocommit
    /\ last.op = "exit"
    /\ last.exc
    /\ ~scopeMany
    /\ Cardinality(scopeStmts) = 2
    /\ \A s \in scopeStmts : status[s] = "rolledback"

\* C3: with autocommit off, once the Database is torn down every statement
\* that was executed successfully and was not rolled back by a failure exit of
\* the transactional scope is committed.  Stated for the runs in which no
\* operation, nor the teardown, reported an error: there a statement that is
\* not committed is lost silently.
C3_NoPendingWorkLost ==
    (~autocommit /\ phase = "deleted" /\ ~anyRaised) =>
        \A s \in 1..nstmt : status[s] \in {"persisted", "rolledback"}

\* C4: teardown issues commit and then close exactly when the transport is
\* open, and neither when it is closed.
C4_TeardownCommitThenClose ==
    last.op = "del" =>
        last.calls = (IF last.wasOpen THEN <<"commit", "close">> ELSE <<>>)

\* C5: teardown never raises, whatever state the Database is discarded in.
C5_TeardownNeverRaises == last.op = "del" => ~last.raised

\* C6: a rollback is issued on the connection only by an exit of the
\* transactional scope that is caused by an exception.
C6_RollbackOnlyOnFailureExit ==
    (\E k \in DOMAIN last.calls : last.calls[k] = "rollback") =>
        (last.op = "exit" /\ last.exc)

C6_Witness ==
    /\ autocommit
    /\ last.op = "exit"
    /\ last.exc
    /\ last.calls = <<"rollback">>
    /\ nstmt > 0

\* C7: leaving the scoped cursor issues exactly one commit and no rollback when
\* autocommit is on, on the normal and on the exception path alike, and issues
\* nothing when autocommit is off.
C7_CursorExitCommit ==
    last.cursor # "none" =>
        last.exitCalls = (IF autocommit THEN <<"commit">> ELSE <<>>)

C7_Witness ==
    /\ autocommit
    /\ last.op = "execute"
    /\ last.cursor = "closed"
    /\ last.raised
    /\ last.exitCalls = <<"commit">>

\* C8: every cursor the scoped acquisition hands out is closed when the scope
\* is left, on every exit path.
C8_CursorAlwaysClosed == last.cursor # "open"

\* C9: construction never makes more than max_retries connection attempts,
\* sleeps 2^k after failed attempt k when another attempt follows, and when
\* every attempt fails it has made exactly max_retries attempts and raises
\* the error that carries max_retries.
C9_RetryBound ==
    /\ attempts <= max_retries
    /\ sleeps = [k \in 1..Min(retry, max_retries - 1) |-> 2 ^ (k - 1)]
    /\ phase = "failed" => (attempts = max_retries /\ errRetries = max_retries)
    /\ phase \in {"connecting", "live"} => errRetries = -1

C9_Witness ==
    /\ phase = "failed"
    /\ max_retries = 3
    /\ attempts = 3
    /\ sleeps = <<1, 2>>
    /\ errRetries = 3

\* C10: every statement execute_many passes to the driver is free of leading
\* and trailing whitespace and of the delimiter that ended it; for the
\* specification's delimiter example the statements executed are exactly
\* "SELECT 1" and then "SELECT 2".
C10_StatementsStripped ==
    spc = "done" =>
        /\ \A k \in DOMAIN last.executed :
            /\ last.executed[k] = Strip(last.executed[k])
            /\ ~EndsWith(last.executed[k], parse.hDelims[k])
        /\ lines = DelimiterExample =>
            last.executed = << <<"S", "E", "L", "E", "C", "T", " ", "1">>,
                               <<"S", "E", "L", "E", "C", "T", " ", "2">> >>

\* a blank (whitespace-only) line or a comment line (starting with "--")
IsSkipped(line) == Strip(line) = <<>> \/ StartsWith(line, CommentMarker)

\* the script without its blank and comment lines
RECURSIVE Kept(_)
Kept(ls) ==
    IF ls = <<>> THEN <<>>
    ELSE IF IsSkipped(Head(ls)) THEN Kept(Tail(ls))
    ELSE <<Head(ls)>> \o Kept(Tail(ls))

\* C11: blank lines and comment lines never contribute to a statement: the
\* statements a call has executed are those the script without such lines
\* yields, all of them once the call has completed; and a script of such lines
\* only executes nothing and raises nothing of its own (the call fails only
\* when the server session is gone and the driver raises).
C11_SkippedLinesContributeNothing ==
    /\ (last.executed # <<>> \/ spc = "done") =>
        LET kept == ParseLines(Kept(lines)).stmts IN
        IF spc = "done" THEN last.executed = kept
        ELSE Len(last.executed) <= Len(kept)
             /\ last.executed = SubSeq(kept, 1, Len(last.executed))
    /\ (\A k \in DOMAIN lines : IsSkipped(lines[k])) =>
        /\ last.executed = <<>>
        /\ ~parse.error
        /\ spc = "raised" => (last.error = "DriverError" /\ ~link)

C11_Witness ==
    /\ spc = "done"
    /\ lines = <<LineBegin, LineComment, LineSelect2>>
    /\ last.executed = << Strip(LineBegin \o LineSelect2) >>

\* the token that follows the first token DELIMITER of a line, <<>> if none
TokenAfterDelimiterWord(line) ==
    LET t == Split(line)
        at == { k \in DOMAIN t : t[k] = DelimiterWord }
    IN  IF at = {} THEN <<>>
        ELSE LET k == CHOOSE i \in at : \A j \in at : i <= j
             IN  IF k < Len(t) THEN t[k + 1] ELSE <<>>

\* the second whitespace-separated token of a line, <<>> if none
SecondToken(line) == IF Len(Split(line)) >= 2 THEN Split(line)[2] ELSE <<>>

\* the delimiter in force after the lines ls, started from d, when a line that
\* is not skipped and contains DELIMITER sets it to the token that follows
\* DELIMITER (byToken) or to the line's second token (~byToken)
RECURSIVE DelimiterAfter(_, _, _)
DelimiterAfter(d, ls, byToken) ==
    IF ls = <<>> THEN d
    ELSE LET l == Head(ls)
             t == IF byToken THEN TokenAfterDelimiterWord(l) ELSE SecondToken(l)
         IN  DelimiterAfter(IF ~IsSkipped(l) /\ Contains(l, DelimiterWord) /\ t # <<>>
                            THEN t ELSE d,
                            Tail(ls), byToken)

\* no DELIMITER line is part of a statement or of the buffer: a line that is
\* not skipped and contains DELIMITER is such a line, so the word appears in
\* neither
DirectiveLinesDropped ==
    /\ ~Contains(parse.stmt, DelimiterWord)
    /\ \A k \in DOMAIN parse.stmts : ~Contains(parse.stmts[k], DelimiterWord)
    /\ \A k \in DOMAIN last.executed : ~Contains(last.executed[k], DelimiterWord)

\* C12 as stated: the active delimiter is ";" at first, a line containing the
\* token DELIMITER sets it to the token that follows DELIMITER, it stays in
\* force until the next such line, and the DELIMITER line is part of no
\* statement and not of the buffer.
C12_DelimiterIsTokenAfterWord ==
    ~parse.error =>
        /\ parse.DELIMITER = DelimiterAfter(Semicolon, SubSeq(lines, 1, lineNo), TRUE)
        /\ DirectiveLinesDropped

\* C12 amended: the same, with the delimiter set to the second
\* whitespace-separated token of the line, which is the token that follows
\* DELIMITER when the line begins with it.
C12_DelimiterIsSecondToken ==
    ~parse.error =>
        /\ parse.DELIMITER = DelimiterAfter(Semicolon, SubSeq(lines, 1, lineNo), FALSE)
        /\ DirectiveLinesDropped

C12_Witness ==
    /\ spc = "done"
    /\ lines = DelimiterExample
    /\ parse.hDelims = << <<"$", "$">>, Semicolon >>
    /\ parse.DELIMITER = Semicolon
    /\ Len(last.executed) = 2

\* the calls of a run of execute_many that executes n statements and then
\* commits `commits` times: one cursor acquisition, the executes, the commits
CallsOfRun(n, commits) ==
    <<"ping">> \o [k \in 1..n |-> "execute"] \o [k \in 1..commits |-> "commit"]

\* C13 as stated: on a successful execute_many every finalized statement is
\* executed exactly once, in the order of finalization, within a single cursor
\* scope, and the connection is committed once, after the last statement.
C13_ExecutedInOrderCommittedOnce ==
    spc = "done" =>
        /\ last.executed = ParseLines(lines).stmts
        /\ last.cursor = "closed"
        /\ last.calls = CallsOfRun(Len(last.executed), 1)

\* C13 amended: the same, with the commit of execute_many followed by the
\* commit of the cursor scope's exit when autocommit is on.
C13_ExecutedInOrderCommittedAtEnd ==
    spc = "done" =>
        /\ last.executed = ParseLines(lines).stmts
        /\ last.cursor = "closed"
        /\ last.calls = CallsOfRun(Len(last.executed), IF autocommit THEN 2 ELSE 1)

C13_Witness ==
    /\ spc = "done"
    /\ autocommit
    /\ lines = <<LineSelect2, LineBegin, LineInner>>
    /\ Len(last.executed) = 2
    /\ last.calls = <<"ping", "execute", "execute", "commit", "commit">>
    /\ \A s \in 1..2 : status[s] = "persisted"

\* C14: when executing the i-th finalized statement fails, execute_many
\* executes no statement after it, issues no rollback, and raises.
C14_FailureAbortsScript ==
    last.failedAt > 0 =>
        /\ spc = "raised"
        /\ last.raised
        /\ last.error # "none"
        /\ last.executed = SubSeq(ParseLines(lines).stmts, 1, last.failedAt)
        /\ \A k \in DOMAIN last.calls : last.calls[k] # "rollback"
        /\ Cardinality({ k \in DOMAIN last.calls : last.calls[k] = "execute" })
               = last.failedAt

C14_Witness ==
    /\ spc = "raised"
    /\ last.failedAt = 2
    /\ Len(parse.stmts) = 3
    /\ Len(last.executed) = 2
    /\ ~autocommit
    /\ last.calls = <<"ping", "execute", "execute">>
    /\ status[1] = "pending"

\* C15: update called with no non-empty where form (none given, or an empty
\* where_list) fails with the argument error before a cursor is acquired: it
\* executes no statement and issues no commit and no rollback.
C15_UpdateWithoutWhereFails ==
    (last.op = "update" /\ last.where \in {"none", "empty_list"}) =>
        /\ last.raised
        /\ last.error = "ValueError"
        /\ last.cursor = "none"
        /\ last.calls = <<>>
        /\ last.executed = <<>>

C15_Witness ==
    /\ last.op = "update"
    /\ last.where = "empty_list"
    /\ last.raised
    /\ last.calls = <<>>
    /\ ~autocommit
    /\ nstmt = 1
    /\ status[1] = "pending"

\* the position of a key among the keys of the dict
KeyPos(key) == CHOOSE k \in DOMAIN obj : obj[k].key = key

\* list holds no key of `excluded` and every other key of the dict exactly
\* once, in the order of the dict
ListsKeysBut(list, excluded) ==
    LET keys == { obj[k].key : k \in DOMAIN obj } IN
    /\ \A k \in DOMAIN list : list[k] \in keys \ excluded
    /\ \A key \in keys \ excluded :
        Cardinality({ k \in DOMAIN list : list[k] = key }) = 1
    /\ \A i, j \in DOMAIN list : i < j => KeyPos(list[i]) < KeyPos(list[j])

\* the arguments bound are the dict's values of the listed columns, in order
BindsValuesOf(args, list) ==
    /\ Len(args) >= Len(list)
    /\ \A k \in DOMAIN list : args[k].text = obj[KeyPos(list[k])].val.text

\* the parts of C16 that do not concern the ON DUPLICATE list
C16_ColumnsAndSetList ==
    /\ built.op = "insert" =>
        /\ ListsKeysBut(built.cols, {"id"})
        /\ built.vals = Len(built.cols)
        /\ Len(built.args) = Len(built.cols)
        /\ BindsValuesOf(built.args, built.cols)
    /\ built.op = "update" =>
        /\ ListsKeysBut(built.updates, {"id"})
        /\ BindsValuesOf(built.args, built.updates)
    /\ built.op = "upsert" =>
        /\ ListsKeysBut(built.cols, {"id"})
        /\ built.vals = Len(built.cols)
        /\ Len(built.args) = Len(built.cols)
        /\ BindsValuesOf(built.args, built.cols)
    /\ Keys(obj) = <<"id", "name">> /\ built.op = "insert" =>
        /\ built.cols = <<"name">>
        /\ built.args = << [type |-> "str", text |-> "x"] >>

\* C16 as stated: for every row, the column list and bound values of insert,
\* the SET list of update, and the column list and the ON DUPLICATE list of
\* upsert never contain `id` and contain every other key of the row exactly
\* once, in row order; insert("t", {"id": 5, "name": "x"}) has the column list
\* `name` and binds "x".
C16_BuildersListEveryKeyButId ==
    /\ C16_ColumnsAndSetList
    /\ built.op = "upsert" => ListsKeysBut(built.updates, {"id"})

\* C16 amended: the same, the ON DUPLICATE list of upsert containing every key
\* other than `id` and `created_at`.
C16_BuildersListEveryKeyButIdAndCreatedAt ==
    /\ C16_ColumnsAndSetList
    /\ built.op = "upsert" => ListsKeysBut(built.updates, {"id", "created_at"})

C16_Witness ==
    /\ Keys(obj) = <<"id", "name">>
    /\ last.op = "insert"
    /\ ~last.raised
    /\ built.op = "insert"
    /\ built.cols = <<"name">>
    /\ built.args = << [type |-> "str", text |-> "x"] >>

\* C17: for every row, the ON DUPLICATE KEY UPDATE clause built by upsert
\* lists exactly the row's keys other than `id` and `created_at`, each once,
\* and the INSERT column list still includes `created_at` when the row has it.
C17_OnDuplicateSkipsCreatedAt ==
    built.op = "upsert" =>
        /\ ListsKeysBut(built.updates, {"id", "created_at"})
        /\ (\E k \in DOMAIN obj : obj[k].key = "created_at") =>
            Cardinality({ k \in DOMAIN built.cols : built.cols[k] = "created_at" }) = 1

C17_Witness ==
    /\ Keys(obj) = <<"created_at", "id", "name">>
    /\ last.op = "upsert"
    /\ ~last.raised
    /\ built.cols = <<"created_at", "name">>
    /\ built.updates = <<"name">>

\* the lines of the script that are not skipped, are no DELIMITER lines and
\* contain the delimiter active when they are read
FinalizingLines ==
    { k \in DOMAIN lines :
        /\ ~IsSkipped(lines[k])
        /\ ~Contains(lines[k], DelimiterWord)
        /\ Contains(lines[k],
                    DelimiterAfter(Semicolon, SubSeq(lines, 1, k - 1), FALSE)) }

\* what C18 says of the iteration that reads a line which is neither skipped
\* nor a DELIMITER line
BufferStep ==
    (spc = "parse" /\ lineNo' = lineNo + 1) =>
        LET l == lines[lineNo + 1] IN
        (~IsSkipped(l) /\ ~Contains(l, DelimiterWord)) =>
            IF ~Contains(l, parse.DELIMITER)
            THEN /\ parse'.stmt = parse.stmt \o l
                 /\ parse'.stmts = parse.stmts
            ELSE /\ parse'.stmts = Append(parse.stmts, Strip(parse.stmt \o l))
                 /\ parse'.stmt = <<>>

\* C18: a line that is not skipped and does not contain the active delimiter
\* is appended unchanged to the buffer; the next line that is not skipped and
\* contains the active delimiter flushes the buffer plus that line as exactly
\* one statement and empties the buffer; and a call that completes has
\* executed as many statements as the script has lines that are not skipped,
\* are no DELIMITER lines and contain the delimiter active at that line.
C18_BufferAndFlush ==
    /\ [][BufferStep]_vars
    /\ [](spc = "done" => Len(last.executed) = Cardinality(FinalizingLines))

C18_Witness ==
    /\ spc = "done"
    /\ lines = <<LineBegin, LineInner, LineSelect2>>
    /\ last.executed = << Strip(LineBegin \o LineInner), Strip(LineSelect2) >>
    /\ parse.stmt = <<>>

\* a DELIMITER line with no token after the word
IsBareDirective(line) == Split(line) = <<DelimiterWord>>

\* C19: execute_many reads every line before it executes anything, so no
\* statement reaches the driver while lines remain; a DELIMITER line with no
\* following token makes the call raise with no statement executed, whatever
\* statements the lines before it had finalized.
C19_ParseBeforeExecute ==
    /\ last.executed # <<>> => (lineNo = Len(lines) /\ ~parse.error)
    /\ spc \in {"call", "parse"} => (last.executed = <<>> /\ nstmt = 0)
    /\ \A k \in 1..lineNo : IsBareDirective(lines[k]) => (parse.error /\ k = lineNo)
    /\ parse.error =>
        /\ spc = "raised"
        /\ last.raised
        /\ last.error = "IndexError"
        /\ last.executed = <<>>
        /\ nstmt = 0

C19_Witness ==
    /\ spc = "raised"
    /\ lines = <<LineSelect2, LineInner, LineBareDirective>>
    /\ parse.error
    /\ Len(parse.stmts) = 2
    /\ last.executed = <<>>
    /\ last.error = "IndexError"

\* the greatest element of a set of line numbers, 0 if there is none
LastOf(S) == IF S = {} THEN 0 ELSE CHOOSE k \in S : \A j \in S : j <= k

\* some line after line k goes to the buffer
HasTailAfter(k) ==
    \E j \in (k + 1)..Len(lines) :
        ~IsSkipped(lines[j]) /\ ~Contains(lines[j], DelimiterWord)

\* a is the beginning of b
IsPrefix(a, b) == Len(a) <= Len(b) /\ a = SubSeq(b, 1, Len(a))

\* C20: text left in the buffer when the lines are exhausted is never
\* executed: the call goes on without error of its own and executes the
\* statements finalized before, those of the script without its unterminated
\* tail, and nothing else.
C20_UnterminatedTailDropped ==
    (lineNo = Len(lines) /\ ~parse.error) =>
        LET lastFin == LastOf(FinalizingLines)
            terminated == ParseLines(SubSeq(lines, 1, lastFin)).stmts
        IN  HasTailAfter(lastFin) =>
                /\ spc = "parse" => parse.stmt # <<>>
                /\ IF spc = "done" THEN last.executed = terminated
                   ELSE IsPrefix(last.executed, terminated)
                /\ (spc = "raised" /\ last.failedAt = 0) =>
                    (last.error = "DriverError" /\ ~link)

C20_Witness ==
    /\ spc = "done"
    /\ lines = <<LineSelect2, LineBegin>>
    /\ parse.stmt = LineBegin
    /\ last.executed = << Strip(LineSelect2) >>
    /\ ~last.raised

====
